---- MODULE Spec2Model ----
(***************************************************************************)
(* Model of src/shader.c (gst-plugins-gles): loading a vertex and a        *)
(* fragment shader from a precompiled binary (.glsh) or from source        *)
(* (.glsl), linking them into a GLES2 program, and releasing them again.   *)
(*                                                                         *)
(* The GLES2 driver is modelled as far as shader.c observes it: shader and *)
(* program objects with their names, attachments, deletion flags, the      *)
(* current program, the sticky error flag read by glGetError, the clear    *)
(* colour.  Every function of shader.c is an operator that maps a driver   *)
(* state to the SET of results the call can have; the driver's own choices *)
(* (an object creation that returns 0, an attach error, the link status    *)
(* and the attribute slots the linker assigns) are what makes the set      *)
(* larger than one element.  The shader files are outside the program and  *)
(* can change between two calls: each read of a file can fail or succeed,  *)
(* and the driver can take or refuse what was read.  The log of the last   *)
(* call records every driver call and file read with its result.           *)
(***************************************************************************)
EXTENDS Integers, Sequences, FiniteSets, TLC

VARIABLES
    env,      \* the driver's extension string (GL_EXTENSIONS)
    gl,       \* the GLES2 context: objects, current program, error flag, call log
    shader,   \* the caller's GstGLESShader structure
    last,     \* the call of the host that has just returned: operation, argument,
              \* return value, and whether the call before it was a gl_init_shader
              \* that returned 0; op is "none" while the host is between two calls,
              \* and prev_ok then tells that of the call that returned last
    alive     \* FALSE once the process has crashed

vars == <<env, gl, shader, last, alive>>

(***************************************************************************)
(* Bounds of the model.                                                    *)
(***************************************************************************)
MaxObject == 6      \* shader and program object names are 1..MaxObject
MaxAttrib == 1      \* vertex attribute slots are 0..MaxAttrib

\* Shader and program objects share one name space.
Names == 1..MaxObject
ProgramNames == Names
ShaderNames == Names
AttribSlots == 0..MaxAttrib

(***************************************************************************)
(* Constants of shader.c.                                                  *)
(***************************************************************************)
EINVAL == 22
ENOMEM == 12

ShaderTypes == {"SHADER_DEINT_LINEAR", "SHADER_COPY"}

\* Mutant: the table is in the wrong order.
shader_basenames_swapped(process_type) ==
    IF process_type = "SHADER_DEINT_LINEAR" THEN "copy" ELSE "deint_linear"

shader_basenames(process_type) ==
    IF process_type = "SHADER_DEINT_LINEAR" THEN "deint_linear" ELSE "copy"

VERTEX_SHADER_BASENAME == "vertex"
SHADER_EXT_BINARY == ".glsh"
SHADER_EXT_SOURCE == ".glsl"

Basenames == {VERTEX_SHADER_BASENAME} \cup {shader_basenames(t) : t \in ShaderTypes}

\* g_strdup_printf ("%s/%s%s", DATA_DIR, basename, ext); DATA_DIR is one fixed
\* directory, so a file is named by basename and extension.
ShaderFilename(basename, ext) == basename \o ext

Filenames == {ShaderFilename(b, e) : b \in Basenames, e \in {SHADER_EXT_BINARY, SHADER_EXT_SOURCE}}

\* The extension tokens a driver can advertise in GL_EXTENSIONS.
GL_NV_platform_binary == "GL_NV_platform_binary"
GL_OES_rgb8_rgba8 == "GL_OES_rgb8_rgba8"

(***************************************************************************)
(* The call log: one entry per driver call or file read of the last call   *)
(* of the host.                                                            *)
(***************************************************************************)
Ev(op, file, id, res) == [op |-> op, file |-> file, id |-> id, res |-> res]

Logged(m, e) == [m EXCEPT !.log = Append(@, e)]

(***************************************************************************)
(* The GLES2 driver.                                                       *)
(***************************************************************************)
NoProgram == [st |-> "free", del |-> FALSE, att |-> {}, bound |-> FALSE,
              pos |-> -1, tex |-> -1]

\* The names that name no object.
FreeNames(m) == {n \in Names : m.sh[n] = "free" /\ m.pr[n].st = "free"}

Smallest(S) == CHOOSE x \in S : \A y \in S : x <= y

\* Shader s is attached to some program object.
IsAttached(m, s) == \E p \in ProgramNames : s \in m.pr[p].att

\* glGetString (GL_EXTENSIONS) and g_strstr_len on it.
gl_extension_available(e, m, extension) ==
    [m |-> Logged(m, Ev("glGetString", extension, 0, IF extension \in e THEN 1 ELSE 0)),
     res |-> extension \in e]

\* glCreateShader: 0, or the name of a new shader object.
glCreateShader(m, type) ==
    {[m |-> Logged(m, Ev("glCreateShader", type, 0, 0)), name |-> 0]}
    \cup
    (IF FreeNames(m) = {} THEN {}
     ELSE LET n == Smallest(FreeNames(m)) IN
          {[m |-> Logged([m EXCEPT !.sh[n] = "live"], Ev("glCreateShader", type, n, 1)),
            name |-> n]})

\* glCreateProgram: 0, or the name of a new program object.
glCreateProgram(m) ==
    {[m |-> Logged(m, Ev("glCreateProgram", "", 0, 0)), name |-> 0]}
    \cup
    (IF FreeNames(m) = {} THEN {}
     ELSE LET n == Smallest(FreeNames(m)) IN
          {[m |-> Logged([m EXCEPT !.pr[n] = [NoProgram EXCEPT !.st = "unlinked"]],
                         Ev("glCreateProgram", "", n, 1)),
            name |-> n]})

\* glDeleteShader: 0 is ignored; a name that is no shader object raises an error
\* (GL_INVALID_VALUE, or GL_INVALID_OPERATION for a program object); an attached
\* shader is only flagged for deletion.
glDeleteShader(m, s) ==
    LET l == Logged(m, Ev("glDeleteShader", "", s,
                          IF s \in ShaderNames /\ m.sh[s] # "free" THEN 1 ELSE 0)) IN
    IF s = 0 THEN l
    ELSE IF s \notin ShaderNames \/ m.sh[s] = "free" THEN [l EXCEPT !.err = TRUE]
    ELSE IF IsAttached(m, s) THEN [l EXCEPT !.sh[s] = "flagged"]
    ELSE [l EXCEPT !.sh[s] = "free"]

\* The program object p goes away: its shaders are detached, and those flagged
\* for deletion and attached nowhere else go away with it.
DestroyProgram(m, p) ==
    LET gone == [m EXCEPT !.pr[p] = NoProgram] IN
    [gone EXCEPT !.sh = [s \in ShaderNames |->
        IF m.sh[s] = "flagged" /\ ~IsAttached(gone, s) THEN "free" ELSE m.sh[s]]]

\* glDeleteProgram: 0 is ignored; a name that is no program object raises an
\* error (GL_INVALID_VALUE, or GL_INVALID_OPERATION for a shader object); the
\* current program is only flagged for deletion.
glDeleteProgram(m, p) ==
    LET l == Logged(m, Ev("glDeleteProgram", "", p,
                          IF p \in ProgramNames /\ m.pr[p].st # "free" THEN 1 ELSE 0)) IN
    IF p = 0 THEN l
    ELSE IF p \notin ProgramNames \/ m.pr[p].st = "free" THEN [l EXCEPT !.err = TRUE]
    ELSE IF m.cur = p THEN [l EXCEPT !.pr[p].del = TRUE]
    ELSE DestroyProgram(l, p)

\* glGetError: the error flag, which the call clears.
glGetError(m) ==
    [m |-> Logged([m EXCEPT !.err = FALSE], Ev("glGetError", "", 0, IF m.err THEN 1 ELSE 0)),
     err |-> m.err]

\* glShaderBinary: the driver takes the blob or raises an error.
glShaderBinary(m, s) ==
    {Logged(m, Ev("glShaderBinary", "", s, 1)),
     Logged([m EXCEPT !.err = TRUE], Ev("glShaderBinary", "", s, 0))}

\* glShaderSource (shader, 1, &string, &length): the driver takes the first
\* length bytes of string as the source of s; the log keeps the length.
glShaderSource(m, s, string, length) == Logged(m, Ev("glShaderSource", "", s, length))

\* glCompileShader, glGetShaderiv (GL_COMPILE_STATUS).
glCompileShader(m, s) ==
    {[m |-> Logged(m, Ev("glCompileShader", "", s, IF ok THEN 1 ELSE 0)),
      compiled |-> ok] : ok \in BOOLEAN}

\* glAttachShader: the shader is attached, or the driver raises an error.
glAttachShader(m, p, s) ==
    {Logged([m EXCEPT !.pr[p].att = @ \cup {s}], Ev("glAttachShader", "", s, 1)),
     Logged([m EXCEPT !.err = TRUE], Ev("glAttachShader", "", s, 0))}

\* glBindAttribLocation (program, 0, "vPosition").
glBindAttribLocation(m, p) ==
    Logged([m EXCEPT !.pr[p].bound = TRUE], Ev("glBindAttribLocation", "vPosition", p, 0))

\* The slots the linker can give the two attributes: an attribute that is not
\* active has none (-1), a bound attribute that is active has its bound slot,
\* and two active attributes have different slots.
LinkedSlots(bound) ==
    {a \in [pos : {-1} \cup AttribSlots, tex : {-1} \cup AttribSlots] :
        /\ (bound /\ a.pos # -1) => a.pos = 0
        /\ (a.pos # -1) => a.tex # a.pos}

\* glLinkProgram: fails when a stage is missing, can fail otherwise, and on
\* success fixes the attribute slots.
glLinkProgram(m, p, vs, fs) ==
    {Logged(m, Ev("glLinkProgram", "", p, 0))}
    \cup
    (IF {vs, fs} \subseteq m.pr[p].att
     THEN {Logged([m EXCEPT !.pr[p].st = "linked", !.pr[p].pos = a.pos, !.pr[p].tex = a.tex],
                  Ev("glLinkProgram", "", p, 1)) : a \in LinkedSlots(m.pr[p].bound)}
     ELSE {})

\* glGetProgramiv (GL_LINK_STATUS).
glGetProgramiv(m, p) == m.pr[p].st = "linked"

\* glUseProgram: p becomes current; the program it replaces goes away if it was
\* flagged for deletion.
glUseProgram(m, p) ==
    LET old == m.cur
        l == Logged([m EXCEPT !.cur = p], Ev("glUseProgram", "", p, 1)) IN
    IF old # 0 /\ old # p /\ m.pr[old].del THEN DestroyProgram(l, old) ELSE l

\* glGetAttribLocation.
glGetAttribLocation(m, p, name) ==
    IF name = "vPosition" THEN m.pr[p].pos ELSE m.pr[p].tex

\* glClearColor (0.0, 0.0, 0.0, 1.0).
glClearColor(m) == Logged([m EXCEPT !.clr = "opaque_black"], Ev("glClearColor", "", 0, 1))

(***************************************************************************)
(* shader.c.  Each function maps the driver state m to the set of its      *)
(* possible results.                                                       *)
(***************************************************************************)

\* The shader directory: the bytes of each file.  A binary shader is a blob of
\* any bytes; of the source files, deint_linear.glsl holds a zero byte in its
\* text.
FileContents(filename) ==
    IF filename \in {ShaderFilename(b, SHADER_EXT_BINARY) : b \in Basenames} THEN <<0, 127, 0>>
    ELSE IF filename = "deint_linear.glsl" THEN <<35, 0, 125>>
    ELSE <<35, 125>>

\* g_file_load_contents: the file is read, and contents and length are set, or
\* it cannot be read.
g_file_load_contents(m, filename) ==
    {[m |-> Logged(m, Ev("g_file_load_contents", filename, 0, 1)), ok |-> TRUE,
      contents |-> FileContents(filename), length |-> Len(FileContents(filename))],
     [m |-> Logged(m, Ev("g_file_load_contents", filename, 0, 0)), ok |-> FALSE,
      contents |-> <<>>, length |-> 0]}

\* strlen: the number of bytes before the first zero byte (g_file_load_contents
\* puts a zero byte after the contents).
strlen(s) ==
    LET zeros == {i \in 1..Len(s) : s[i] = 0} IN
    IF zeros = {} THEN Len(s) ELSE Smallest(zeros) - 1

\* After glShaderBinary: the error flag decides whether the shader is kept.
BinarySubmitted(m, id) ==
    LET g == glGetError(m) IN
    IF g.err THEN [m |-> glDeleteShader(g.m, id), shader |-> 0]
    ELSE [m |-> g.m, shader |-> id]

\* After g_file_load_contents in gl_load_binary_shader.  (The length is a
\* GLsizei written through a gsize*: the same width on the 32-bit builds the
\* NVIDIA platform binary format exists for.)
BinaryRead(r, id) ==
    IF ~r.ok THEN {[m |-> glDeleteShader(r.m, id), shader |-> 0]}
    ELSE {BinarySubmitted(b, id) : b \in glShaderBinary(r.m, id)}

\* After glCreateShader in gl_load_binary_shader.
BinaryCreated(m, filename, id) ==
    IF id = 0 THEN {[m |-> m, shader |-> 0]}
    ELSE UNION {BinaryRead(r, id) : r \in g_file_load_contents(m, filename)}

\* Mutant: the extension is not checked.
gl_load_binary_shader_unchecked(e, m, filename, type) ==
    LET x == gl_extension_available(e, m, GL_NV_platform_binary) IN
    UNION {BinaryCreated(c.m, filename, c.name) : c \in glCreateShader(x.m, type)}

gl_load_binary_shader(e, m, filename, type) ==
    LET x == gl_extension_available(e, m, GL_NV_platform_binary) IN
    IF ~x.res THEN {[m |-> x.m, shader |-> 0]}
    ELSE UNION {BinaryCreated(c.m, filename, c.name) : c \in glCreateShader(x.m, type)}

\* Mutant: a shader that did not compile is not deleted.
SourceCompiled_kept(m, id, compiled) ==
    IF ~compiled THEN [m |-> m, shader |-> 0, crashed |-> FALSE]
    ELSE [m |-> m, shader |-> id, crashed |-> FALSE]

\* After glCompileShader in gl_load_source_shader.
SourceCompiled(m, id, compiled) ==
    IF ~compiled THEN [m |-> glDeleteShader(m, id), shader |-> 0, crashed |-> FALSE]
    ELSE [m |-> m, shader |-> id, crashed |-> FALSE]

\* The read of the source file failed.  err is an uninitialised GError*, which
\* g_file_load_contents sets only if it holds NULL; err->message is read and
\* g_free (err) is called on whatever it holds: the call goes on to delete the
\* shader and return 0, or the process crashes there.
SourceUnreadable(m, id) ==
    {[m |-> glDeleteShader(m, id), shader |-> 0, crashed |-> FALSE],
     [m |-> m, shader |-> 0, crashed |-> TRUE]}

\* After g_file_load_contents in gl_load_source_shader.
SourceRead(r, id) ==
    IF ~r.ok THEN SourceUnreadable(r.m, id)
    ELSE LET src_len == strlen(r.contents) IN
         {SourceCompiled(c.m, id, c.compiled) :
            c \in glCompileShader(glShaderSource(r.m, id, r.contents, src_len), id)}

\* After glCreateShader in gl_load_source_shader.
SourceCreated(m, filename, id) ==
    IF id = 0 THEN {[m |-> m, shader |-> 0, crashed |-> FALSE]}
    ELSE UNION {SourceRead(r, id) : r \in g_file_load_contents(m, filename)}

gl_load_source_shader(m, filename, type) ==
    UNION {SourceCreated(c.m, filename, c.name) : c \in glCreateShader(m, type)}

\* Mutant: the source compiler is tried whatever the binary loader returned.
BinaryOrSource_always(b, basename, type) ==
    gl_load_source_shader(b.m, ShaderFilename(basename, SHADER_EXT_SOURCE), type)

\* The binary loader's result b decides whether the source is tried.
BinaryOrSource(b, basename, type) ==
    IF b.shader = 0
    THEN gl_load_source_shader(b.m, ShaderFilename(basename, SHADER_EXT_SOURCE), type)
    ELSE {[m |-> b.m, shader |-> b.shader, crashed |-> FALSE]}

gl_load_shader(e, m, basename, type) ==
    UNION {BinaryOrSource(b, basename, type) :
             b \in gl_load_binary_shader(e, m, ShaderFilename(basename, SHADER_EXT_BINARY), type)}

\* A result of a function that returns an int and writes the structure s.
Result(m, s, ret) == [m |-> m, s |-> s, ret |-> ret, crashed |-> FALSE]
Crash(m, s) == [m |-> m, s |-> s, ret |-> 0, crashed |-> TRUE]

\* gl_load_shaders after the fragment stage was loaded (f).
FragmentLoaded(s, f) ==
    IF f.crashed THEN Crash(f.m, s)
    ELSE LET s2 == [s EXCEPT !.fragment_shader = f.shader] IN
         IF f.shader = 0 THEN Result(f.m, s2, -EINVAL) ELSE Result(f.m, s2, 0)

\* gl_load_shaders after the vertex stage was loaded (v).
VertexLoaded(e, s, v, process_type) ==
    IF v.crashed THEN {Crash(v.m, s)}
    ELSE LET s1 == [s EXCEPT !.vertex_shader = v.shader] IN
         IF v.shader = 0 THEN {Result(v.m, s1, -EINVAL)}
         ELSE {FragmentLoaded(s1, f) :
                 f \in gl_load_shader(e, v.m, shader_basenames(process_type), "GL_FRAGMENT_SHADER")}

gl_load_shaders(e, m, s, process_type) ==
    UNION {VertexLoaded(e, s, v, process_type) :
             v \in gl_load_shader(e, m, VERTEX_SHADER_BASENAME, "GL_VERTEX_SHADER")}

\* glAttachShader followed by glGetError; an error is logged and nothing else.
AttachAndCheck(m, p, s) == {glGetError(a).m : a \in glAttachShader(m, p, s)}

\* Mutant: on link failure the two shaders are deleted with the program.
Linked_releasing(m, s) ==
    IF ~glGetProgramiv(m, s.program)
    THEN Result(glDeleteProgram(glDeleteShader(glDeleteShader(m, s.vertex_shader),
                                               s.fragment_shader), s.program), s, -EINVAL)
    ELSE LET u == glUseProgram(m, s.program)
             pos == glGetAttribLocation(u, s.program, "vPosition")
             tex == glGetAttribLocation(u, s.program, "aTexcoord")
             s1 == [s EXCEPT !.position_loc = pos, !.texcoord_loc = tex]
             g == Logged(Logged(u, Ev("glGetAttribLocation", "vPosition", s.program, pos)),
                         Ev("glGetAttribLocation", "aTexcoord", s.program, tex)) IN
         Result(glClearColor(g), s1, 0)

\* Mutant: the clear colour is set before the link status is looked at.
Linked_clear_first(m, s) ==
    IF ~glGetProgramiv(m, s.program)
    THEN Result(glDeleteProgram(glClearColor(m), s.program), s, -EINVAL)
    ELSE LET u == glUseProgram(m, s.program)
             pos == glGetAttribLocation(u, s.program, "vPosition")
             tex == glGetAttribLocation(u, s.program, "aTexcoord")
             s1 == [s EXCEPT !.position_loc = pos, !.texcoord_loc = tex]
             g == Logged(Logged(u, Ev("glGetAttribLocation", "vPosition", s.program, pos)),
                         Ev("glGetAttribLocation", "aTexcoord", s.program, tex)) IN
         Result(glClearColor(g), s1, 0)

\* gl_init_shader from the link status on.
Linked(m, s) ==
    IF ~glGetProgramiv(m, s.program)
    THEN Result(glDeleteProgram(m, s.program), s, -EINVAL)
    ELSE LET u == glUseProgram(m, s.program)
             pos == glGetAttribLocation(u, s.program, "vPosition")
             tex == glGetAttribLocation(u, s.program, "aTexcoord")
             s1 == [s EXCEPT !.position_loc = pos, !.texcoord_loc = tex]
             g == Logged(Logged(u, Ev("glGetAttribLocation", "vPosition", s.program, pos)),
                         Ev("glGetAttribLocation", "aTexcoord", s.program, tex)) IN
         Result(glClearColor(g), s1, 0)

\* Mutant: vPosition is not bound to slot 0 before linking.
AttachAndLink_unbound(m, s) ==
    LET attached == UNION {AttachAndCheck(a, s.program, s.fragment_shader) :
                             a \in AttachAndCheck(m, s.program, s.vertex_shader)} IN
    {Linked(l, s) :
        l \in UNION {glLinkProgram(a, s.program, s.vertex_shader, s.fragment_shader) :
                       a \in attached}}

\* Mutant: an attach error makes gl_init_shader return -EINVAL at once.
AttachAndLink_strict(m, s) ==
    UNION {IF v.err THEN {Result(v.m, s, -EINVAL)}
           ELSE UNION {IF f.err THEN {Result(f.m, s, -EINVAL)}
                       ELSE {Linked(l, s) :
                               l \in glLinkProgram(glBindAttribLocation(f.m, s.program), s.program,
                                                   s.vertex_shader, s.fragment_shader)} :
                         f \in {glGetError(a) : a \in glAttachShader(v.m, s.program, s.fragment_shader)}} :
             v \in {glGetError(a) : a \in glAttachShader(m, s.program, s.vertex_shader)}}

\* gl_init_shader from the first glAttachShader on.
AttachAndLink(m, s) ==
    LET attached == UNION {AttachAndCheck(a, s.program, s.fragment_shader) :
                             a \in AttachAndCheck(m, s.program, s.vertex_shader)} IN
    {Linked(l, s) :
        l \in UNION {glLinkProgram(glBindAttribLocation(a, s.program), s.program,
                                   s.vertex_shader, s.fragment_shader) : a \in attached}}

\* gl_init_shader after gl_load_shaders returned r.
ShadersLoaded(r) ==
    IF r.crashed \/ r.ret < 0 THEN {r} ELSE AttachAndLink(r.m, r.s)

\* Mutant: a failed glCreateProgram is reported as -EINVAL.
ProgramCreated_einval(e, c, s, process_type) ==
    LET s1 == [s EXCEPT !.program = c.name] IN
    IF c.name = 0 THEN {Result(c.m, s1, -EINVAL)}
    ELSE UNION {ShadersLoaded(r) : r \in gl_load_shaders(e, c.m, s1, process_type)}

\* Mutant: a failed glCreateProgram is reported only after the shaders were
\* loaded.
ProgramCreated_late(e, c, s, process_type) ==
    LET s1 == [s EXCEPT !.program = c.name] IN
    IF c.name = 0
    THEN {Result(r.m, r.s, -ENOMEM) : r \in gl_load_shaders(e, c.m, s1, process_type)}
    ELSE UNION {ShadersLoaded(r) : r \in gl_load_shaders(e, c.m, s1, process_type)}

\* gl_init_shader after glCreateProgram returned c.
ProgramCreated(e, c, s, process_type) ==
    LET s1 == [s EXCEPT !.program = c.name] IN
    IF c.name = 0 THEN {Result(c.m, s1, -ENOMEM)}
    ELSE UNION {ShadersLoaded(r) : r \in gl_load_shaders(e, c.m, s1, process_type)}

gl_init_shader(e, m, s, process_type) ==
    UNION {ProgramCreated(e, c, s, process_type) : c \in glCreateProgram(m)}

\* Mutant: the vertex shader is released twice, the fragment shader never.
gl_delete_shader_vertex_twice(m, s) ==
    LET m1 == glDeleteShader(m, s.vertex_shader)
        m2 == glDeleteShader(m1, s.vertex_shader)
        s2 == [s EXCEPT !.vertex_shader = 0, !.fragment_shader = 0]
        m3 == glDeleteProgram(m2, s2.program)
        s3 == [s2 EXCEPT !.program = 0] IN
    [m |-> m3, s |-> s3]

\* Mutant: the fragment shader is released before the vertex shader.
gl_delete_shader_fragment_first(m, s) ==
    LET m1 == glDeleteShader(m, s.fragment_shader)
        s1 == [s EXCEPT !.fragment_shader = 0]
        m2 == glDeleteShader(m1, s1.vertex_shader)
        s2 == [s1 EXCEPT !.vertex_shader = 0]
        m3 == glDeleteProgram(m2, s2.program)
        s3 == [s2 EXCEPT !.program = 0] IN
    [m |-> m3, s |-> s3]

\* Mutant: the program object is handed to glDeleteShader.
gl_delete_shader_program_as_shader(m, s) ==
    LET m1 == glDeleteShader(m, s.vertex_shader)
        s1 == [s EXCEPT !.vertex_shader = 0]
        m2 == glDeleteShader(m1, s1.fragment_shader)
        s2 == [s1 EXCEPT !.fragment_shader = 0]
        m3 == glDeleteShader(m2, s2.program)
        s3 == [s2 EXCEPT !.program = 0] IN
    [m |-> m3, s |-> s3]

gl_delete_shader(m, s) ==
    LET m1 == glDeleteShader(m, s.vertex_shader)
        s1 == [s EXCEPT !.vertex_shader = 0]
        m2 == glDeleteShader(m1, s1.fragment_shader)
        s2 == [s1 EXCEPT !.fragment_shader = 0]
        m3 == glDeleteProgram(m2, s2.program)
        s3 == [s2 EXCEPT !.program = 0] IN
    [m |-> m3, s |-> s3]

(***************************************************************************)
(* The host element: it calls gl_init_shader and gl_delete_shader, one     *)
(* call at a time, on one structure and one GLES2 context.  When a call    *)
(* has returned the host takes its result and goes on to its next call;    *)
(* the log of the call is kept until then.                                 *)
(***************************************************************************)
\* The extension strings of a driver without and with binary shaders.
Environments == {{GL_OES_rgb8_rgba8}, {GL_OES_rgb8_rgba8, GL_NV_platform_binary}}

NewContext ==
    [sh |-> [n \in ShaderNames |-> "free"],
     pr |-> [n \in ProgramNames |-> NoProgram],
     cur |-> 0, err |-> FALSE, clr |-> "initial", log |-> <<>>]

NewShader ==
    [program |-> 0, vertex_shader |-> 0, fragment_shader |-> 0,
     position_loc |-> 0, texcoord_loc |-> 0]

Init ==
    /\ env \in Environments
    /\ gl = NewContext
    /\ shader = NewShader
    /\ last = [op |-> "none", process_type |-> "", ret |-> 0, prev_ok |-> FALSE]
    /\ alive = TRUE

\* The last call was a gl_init_shader that returned 0.
InitSucceeded == last.op = "gl_init_shader" /\ alive /\ last.ret = 0

\* The driver has room for the objects of one more gl_init_shader.
HasRoom == Cardinality(FreeNames(gl)) >= 3

InitShader(process_type) ==
    /\ alive
    /\ last.op = "none"
    /\ HasRoom
    /\ \E r \in gl_init_shader(env, [gl EXCEPT !.log = <<>>], shader, process_type) :
         /\ gl' = r.m
         /\ shader' = r.s
         /\ last' = [op |-> "gl_init_shader", process_type |-> process_type, ret |-> r.ret,
                     prev_ok |-> last.prev_ok]
         /\ alive' = ~r.crashed
    /\ UNCHANGED env

DeleteShader ==
    /\ alive
    /\ last.op = "none"
    /\ LET r == gl_delete_shader([gl EXCEPT !.log = <<>>], shader) IN
         /\ gl' = r.m
         /\ shader' = r.s
    /\ last' = [op |-> "gl_delete_shader", process_type |-> "", ret |-> 0,
                prev_ok |-> last.prev_ok]
    /\ UNCHANGED <<env, alive>>

\* The call has returned: the host takes its result and is free to call again.
HostContinues ==
    /\ alive
    /\ last.op # "none"
    /\ last' = [op |-> "none", process_type |-> "", ret |-> 0, prev_ok |-> InitSucceeded]
    /\ gl' = [gl EXCEPT !.log = <<>>]
    /\ UNCHANGED <<env, shader, alive>>

Next ==
    \/ \E process_type \in ShaderTypes : InitShader(process_type)
    \/ DeleteShader
    \/ HostContinues

Spec == Init /\ [][Next]_vars

(***************************************************************************)
(* The host that keeps the ownership rule: it calls gl_delete_shader once  *)
(* after each gl_init_shader that returned 0, before it calls anything     *)
(* else, and never otherwise.                                              *)
(***************************************************************************)
\* A gl_init_shader has returned 0 and gl_delete_shader was not called since.
Outstanding == InitSucceeded \/ (last.op = "none" /\ last.prev_ok)

OwnedInit(process_type) == ~Outstanding /\ InitShader(process_type)

OwnedDelete == Outstanding /\ DeleteShader

NextOwned ==
    \/ \E process_type \in ShaderTypes : OwnedInit(process_type)
    \/ OwnedDelete
    \/ HostContinues

SpecOwned == Init /\ [][NextOwned]_vars

(***************************************************************************)
(* What the properties below read off a state.                             *)
(***************************************************************************)
Log == gl.log
LogIndex == DOMAIN Log

\* The last call was gl_init_shader (it returned, or the process crashed in it).
InitCalled == last.op = "gl_init_shader"
\* The last call was gl_init_shader and it returned.
InitReturned == InitCalled /\ alive

\* Name n names a shader object, a program object.
LiveShader(n) == n \in Names /\ gl.sh[n] # "free"
LiveProgram(n) == n \in Names /\ gl.pr[n].st # "free"
LinkedProgram(n) == n \in Names /\ gl.pr[n].st = "linked"

\* The driver call op was made with result res.
Called(op, res) == \E i \in LogIndex : Log[i].op = op /\ Log[i].res = res
\* The file was read (res = 1), or the read failed (res = 0).
ReadFile(filename, res) ==
    \E i \in LogIndex :
        Log[i].op = "g_file_load_contents" /\ Log[i].file = filename /\ Log[i].res = res
TouchedFile(filename) == ReadFile(filename, 0) \/ ReadFile(filename, 1)

\* The structure is fully populated.
Populated == shader.program # 0 /\ shader.vertex_shader # 0 /\ shader.fragment_shader # 0

\* The program object that the last gl_init_shader created (0: none).
CreatedProgram == IF InitCalled /\ Log # <<>> THEN Log[1].id ELSE 0

\* The stage field of the structure that a shader file belongs to.
StageField(basename) ==
    IF basename = VERTEX_SHADER_BASENAME THEN shader.vertex_shader ELSE shader.fragment_shader

(***************************************************************************)
(* C1 (as claimed): gl_init_shader ends in one of two ways: it returns 0   *)
(* with program, vertex and fragment identifiers non-zero and both         *)
(* attribute locations >= 0, or it returns a negative error code.          *)
(***************************************************************************)
C1_TwoWaysToEnd ==
    InitCalled =>
        /\ alive
        /\ \/ /\ last.ret = 0
              /\ Populated
              /\ shader.position_loc >= 0
              /\ shader.texcoord_loc >= 0
           \/ last.ret < 0

(***************************************************************************)
(* C2 (as claimed): in every reachable state a non-zero program field of   *)
(* the structure names a program object that is live and linked.           *)
(***************************************************************************)
C2_ProgramFieldIsLinkedProgram ==
    (alive /\ shader.program # 0) => LinkedProgram(shader.program)

(***************************************************************************)
(* C3 (as claimed): when the driver advertises binary shaders, the .glsh   *)
(* file of a stage was read and the driver took the blob without error,    *)
(* the stage's handle is the binary shader and the .glsl file of the stage *)
(* is not read in that call.                                               *)
(***************************************************************************)
C3_BinaryTakesPrecedence ==
    InitReturned =>
        \A i \in LogIndex : \A b \in Basenames :
            ( /\ i > 1
              /\ Log[i].op = "glShaderBinary" /\ Log[i].res = 1
              /\ Log[i - 1].op = "g_file_load_contents"
              /\ Log[i - 1].file = ShaderFilename(b, SHADER_EXT_BINARY)
              /\ GL_NV_platform_binary \in env )
            => /\ StageField(b) = Log[i].id
               /\ ~TouchedFile(ShaderFilename(b, SHADER_EXT_SOURCE))

(***************************************************************************)
(* C4: without the binary-shader extension token, every stage goes         *)
(* straight to the source compiler: no .glsh file is read, no blob is      *)
(* submitted, and the only shader objects created are those of the source  *)
(* compiler, each right after the failed extension query.                  *)
(***************************************************************************)
C4_NoExtensionStraightToSource ==
    (InitCalled /\ GL_NV_platform_binary \notin env) =>
        /\ \A b \in Basenames : ~TouchedFile(ShaderFilename(b, SHADER_EXT_BINARY))
        /\ ~Called("glShaderBinary", 0) /\ ~Called("glShaderBinary", 1)
        /\ \A i \in LogIndex :
             /\ Log[i].op = "glGetString" =>
                  /\ Log[i].res = 0
                  /\ i < Len(Log) /\ Log[i + 1].op = "glCreateShader"
                  /\ (Log[i + 1].res = 1 =>
                        /\ i + 1 < Len(Log)
                        /\ Log[i + 2].op = "g_file_load_contents"
                        /\ \E b \in Basenames :
                             Log[i + 2].file = ShaderFilename(b, SHADER_EXT_SOURCE))
             /\ Log[i].op = "glCreateShader" => (i > 1 /\ Log[i - 1].op = "glGetString")

\* C4's case: no extension, and both stages were compiled from source.
C4_Witness ==
    /\ InitSucceeded
    /\ GL_NV_platform_binary \notin env
    /\ ReadFile("vertex.glsl", 1)
    /\ ReadFile("copy.glsl", 1)

(***************************************************************************)
(* C5 (as claimed): when a stage could be loaded neither from binary nor   *)
(* from source, gl_init_shader returns -EINVAL, does not link, and the     *)
(* program object it created is neither live nor left in the structure.    *)
(***************************************************************************)
StageFailed ==
    /\ InitCalled
    /\ CreatedProgram # 0
    /\ ~alive \/ shader.vertex_shader = 0 \/ shader.fragment_shader = 0

C5_StageFailureLeavesNoProgram ==
    StageFailed =>
        /\ alive
        /\ last.ret = -EINVAL
        /\ ~Called("glLinkProgram", 0) /\ ~Called("glLinkProgram", 1)
        /\ ~LiveProgram(CreatedProgram)
        /\ shader.program = 0

(***************************************************************************)
(* C6 (as claimed): gl_delete_shader releases the fragment shader, then    *)
(* the vertex shader, then the program, and leaves the three fields 0.     *)
(***************************************************************************)
Released(m, i, name) == m.log[i].op \in {"glDeleteShader", "glDeleteProgram"} /\ m.log[i].id = name

FieldsCleared(s) == s.vertex_shader = 0 /\ s.fragment_shader = 0 /\ s.program = 0

C6_FragmentVertexProgram ==
    [][last'.op = "gl_delete_shader" =>
         /\ Len(gl'.log) = 3
         /\ gl'.log[1].op = "glDeleteShader" /\ Released(gl', 1, shader.fragment_shader)
         /\ gl'.log[2].op = "glDeleteShader" /\ Released(gl', 2, shader.vertex_shader)
         /\ gl'.log[3].op = "glDeleteProgram" /\ Released(gl', 3, shader.program)
         /\ FieldsCleared(shader')]_vars

(***************************************************************************)
(* C6 (amended): gl_delete_shader releases the vertex shader, then the     *)
(* fragment shader, then the program, and leaves the three fields 0.       *)
(***************************************************************************)
C6_VertexFragmentProgram ==
    [][last'.op = "gl_delete_shader" =>
         /\ Len(gl'.log) = 3
         /\ gl'.log[1].op = "glDeleteShader" /\ Released(gl', 1, shader.vertex_shader)
         /\ gl'.log[2].op = "glDeleteShader" /\ Released(gl', 2, shader.fragment_shader)
         /\ gl'.log[3].op = "glDeleteProgram" /\ Released(gl', 3, shader.program)
         /\ FieldsCleared(shader')]_vars

\* C6's case: gl_delete_shader after a successful gl_init_shader released three
\* objects of the driver.
C6_Witness ==
    /\ last.op = "gl_delete_shader" /\ last.prev_ok
    /\ Len(Log) = 3
    /\ \A i \in 1..3 : Log[i].id # 0 /\ Log[i].res = 1
    /\ FieldsCleared(shader)

(***************************************************************************)
(* C7 (as claimed): whenever gl_init_shader links successfully, the        *)
(* position location stored in the structure is 0.                         *)
(***************************************************************************)
C7_PositionIsZero == InitSucceeded => shader.position_loc = 0

(***************************************************************************)
(* C7 (amended): whenever gl_init_shader links successfully, the position  *)
(* location stored in the structure is 0 if vPosition is an active         *)
(* attribute of the linked program, and -1 if it is not; it is never       *)
(* another slot.                                                           *)
(***************************************************************************)
ActiveAttrib(p, name) == glGetAttribLocation(gl, p, name) # -1

C7_PositionIsZeroWhenActive ==
    InitSucceeded =>
        shader.position_loc = IF ActiveAttrib(shader.program, "vPosition") THEN 0 ELSE -1

\* C7's case: a successful link with both attributes active.
C7_Witness ==
    /\ InitSucceeded
    /\ ActiveAttrib(shader.program, "vPosition")
    /\ ActiveAttrib(shader.program, "aTexcoord")
    /\ shader.position_loc = 0

(***************************************************************************)
(* C8: after a successful gl_init_shader and a gl_delete_shader, a fresh   *)
(* gl_init_shader has, for every shader type, exactly the results it has   *)
(* on a new context with a new structure (the same driver and file answers *)
(* give the same return value), it can succeed, and whenever the link      *)
(* succeeds it returns 0 with a fully populated structure.                 *)
(***************************************************************************)
\* What a result of gl_init_shader shows of the call, object names left out:
\* the calls made with their answers, the return value, and on success the
\* structure.
Answer(ev) == [op |-> ev.op, file |-> ev.file, res |-> ev.res]

Observed(r) ==
    [answers |-> [i \in DOMAIN r.m.log |-> Answer(r.m.log[i])],
     crashed |-> r.crashed,
     ret |-> r.ret,
     populated |-> r.s.program # 0 /\ r.s.vertex_shader # 0 /\ r.s.fragment_shader # 0,
     position_loc |-> IF r.ret = 0 /\ ~r.crashed THEN r.s.position_loc ELSE 0,
     texcoord_loc |-> IF r.ret = 0 /\ ~r.crashed THEN r.s.texcoord_loc ELSE 0]

ResultsHere(process_type) ==
    gl_init_shader(env, [gl EXCEPT !.log = <<>>], shader, process_type)

ResultsWhenNew(process_type) == gl_init_shader(env, NewContext, NewShader, process_type)

LinkSucceeded(r) ==
    \E i \in DOMAIN r.m.log : r.m.log[i].op = "glLinkProgram" /\ r.m.log[i].res = 1

\* A gl_delete_shader that followed a successful gl_init_shader has returned.
AfterCycle == alive /\ last.op = "gl_delete_shader" /\ last.prev_ok /\ HasRoom

C8_FreshInitAfterCycle ==
    AfterCycle =>
        \A t \in ShaderTypes :
            /\ {Observed(r) : r \in ResultsHere(t)} = {Observed(r) : r \in ResultsWhenNew(t)}
            /\ \E r \in ResultsHere(t) : LinkSucceeded(r)
            /\ \A r \in ResultsHere(t) :
                 LinkSucceeded(r) =>
                    /\ ~r.crashed /\ r.ret = 0
                    /\ r.s.program # 0 /\ r.s.vertex_shader # 0 /\ r.s.fragment_shader # 0
                    /\ LET p == r.s.program IN
                         /\ r.m.pr[p].st = "linked" /\ r.m.cur = p
                         /\ r.m.sh[r.s.vertex_shader] = "live"
                         /\ r.m.sh[r.s.fragment_shader] = "live"

\* C8's case: the cycle has happened on a driver with binary shaders, and the
\* objects of the first cycle are still flagged in the driver.
C8_Witness ==
    /\ AfterCycle
    /\ GL_NV_platform_binary \in env
    /\ gl.cur # 0 /\ gl.pr[gl.cur].del

(***************************************************************************)
(* C9 (as claimed): without the binary-shader extension, when vertex.glsl  *)
(* and the type's <basename>.glsl are read and compile and the link        *)
(* succeeds, gl_init_shader returns 0 with the program current,            *)
(* position = 0 and texcoord >= 0, having read only these two files.       *)
(***************************************************************************)
SourceBasename(process_type) ==
    IF process_type = "SHADER_COPY" THEN "copy"
    ELSE IF process_type = "SHADER_DEINT_LINEAR" THEN "deint_linear" ELSE ""

FilesRead == {Log[i].file : i \in {j \in LogIndex : Log[j].op = "g_file_load_contents"}}

CompiledOk == {i \in LogIndex : Log[i].op = "glCompileShader" /\ Log[i].res = 1}

\* C9's premise for shader type t.
SourcesLinked(t) ==
    /\ InitCalled /\ last.process_type = t
    /\ GL_NV_platform_binary \notin env
    /\ Cardinality(CompiledOk) = 2
    /\ Called("glLinkProgram", 1)

C9_SourceOnlyInit ==
    \A t \in ShaderTypes :
        SourcesLinked(t) =>
            /\ alive /\ last.ret = 0
            /\ gl.cur = shader.program /\ LinkedProgram(shader.program)
            /\ shader.position_loc = 0
            /\ shader.texcoord_loc >= 0
            /\ FilesRead = {"vertex.glsl", SourceBasename(t) \o ".glsl"}
            /\ ReadFile("vertex.glsl", 1) /\ ReadFile(SourceBasename(t) \o ".glsl", 1)

(***************************************************************************)
(* C9 (amended): the same, provided the linked program keeps both          *)
(* vPosition and aTexcoord active.                                         *)
(***************************************************************************)
C9_SourceOnlyInitActiveAttribs ==
    \A t \in ShaderTypes :
        ( /\ SourcesLinked(t)
          /\ ActiveAttrib(shader.program, "vPosition")
          /\ ActiveAttrib(shader.program, "aTexcoord") )
        => /\ alive /\ last.ret = 0
           /\ gl.cur = shader.program /\ LinkedProgram(shader.program)
           /\ shader.position_loc = 0
           /\ shader.texcoord_loc >= 0
           /\ FilesRead = {"vertex.glsl", SourceBasename(t) \o ".glsl"}
           /\ ReadFile("vertex.glsl", 1) /\ ReadFile(SourceBasename(t) \o ".glsl", 1)

\* C9's case, for the copy shader.
C9_Witness ==
    /\ SourcesLinked("SHADER_COPY")
    /\ ActiveAttrib(shader.program, "vPosition")
    /\ ActiveAttrib(shader.program, "aTexcoord")
    /\ shader.texcoord_loc = 1

(***************************************************************************)
(* C10 (as claimed): whenever a driver object creation in gl_init_shader   *)
(* returns 0 (glCreateProgram, or glCreateShader in the binary loader or   *)
(* the source compiler), gl_init_shader returns -ENOMEM.                   *)
(***************************************************************************)
CreationFailed(i) == Log[i].op \in {"glCreateProgram", "glCreateShader"} /\ Log[i].res = 0

\* The glCreateShader at i is the binary loader's: it follows the extension
\* query, which found the extension.
InBinaryLoader(i) == i > 1 /\ Log[i - 1].op = "glGetString" /\ Log[i - 1].res = 1

C10_CreationFailureIsENOMEM ==
    InitCalled =>
        \A i \in LogIndex : CreationFailed(i) => (alive /\ last.ret = -ENOMEM)

(***************************************************************************)
(* C10 (amended): only a glCreateProgram that returns 0 makes              *)
(* gl_init_shader return -ENOMEM, and then nothing else is called.  A      *)
(* glCreateShader that returns 0 in the source compiler is fatal and makes *)
(* gl_init_shader return -EINVAL.  A glCreateShader that returns 0 in the  *)
(* binary loader is not fatal: the source compiler is tried next.          *)
(***************************************************************************)
C10_CreationFailureByObject ==
    InitCalled =>
        /\ (alive /\ last.ret = -ENOMEM) <=> (Log[1].op = "glCreateProgram" /\ Log[1].res = 0)
        /\ \A i \in LogIndex :
             ( /\ Log[i].op = "glCreateProgram" /\ Log[i].res = 0
                  => alive /\ last.ret = -ENOMEM /\ Len(Log) = 1 )
             /\ ( Log[i].op = "glCreateShader" /\ Log[i].res = 0 /\ ~InBinaryLoader(i)
                  => alive /\ last.ret = -EINVAL /\ i = Len(Log) )
             /\ ( Log[i].op = "glCreateShader" /\ Log[i].res = 0 /\ InBinaryLoader(i)
                  => i < Len(Log) /\ Log[i + 1].op = "glCreateShader" /\ ~InBinaryLoader(i + 1) )

\* C10's case: glCreateShader returned 0 in the binary loader and gl_init_shader
\* returned 0 all the same.
C10_Witness ==
    /\ InitSucceeded
    /\ \E i \in LogIndex : CreationFailed(i) /\ InBinaryLoader(i)

(***************************************************************************)
(* C11: when glCreateProgram returns 0, gl_init_shader returns -ENOMEM at  *)
(* once: it reads no shader file, creates no shader object, and makes no   *)
(* attach, bind, link or use-program call.                                 *)
(***************************************************************************)
ProgramCreationFailed ==
    InitCalled /\ Log # <<>> /\ Log[1].op = "glCreateProgram" /\ Log[1].res = 0

C11_NoProgramNothingElse ==
    ProgramCreationFailed =>
        /\ alive /\ last.ret = -ENOMEM
        /\ \A i \in LogIndex :
             Log[i].op \notin {"glGetString", "g_file_load_contents", "glCreateShader",
                               "glShaderBinary", "glShaderSource", "glCompileShader",
                               "glAttachShader", "glBindAttribLocation", "glLinkProgram",
                               "glUseProgram"}
        /\ Len(Log) = 1

\* C11's case: glCreateProgram returned 0 in a context that has a current
\* program from an earlier call.
C11_Witness ==
    /\ ProgramCreationFailed
    /\ last.ret = -ENOMEM
    /\ gl.cur # 0

(***************************************************************************)
(* C12: in gl_load_shader the source compiler is tried exactly when the    *)
(* binary loader returned 0, whatever the cause (no extension, no shader   *)
(* object, .glsh unreadable, error after glShaderBinary).  Per stage there *)
(* is one binary attempt and after it at most one source attempt, for the  *)
(* same basename, and what the source compiler returns is what the stage   *)
(* gets.                                                                   *)
(***************************************************************************)
\* An attempt of the binary loader begins with the extension query, an attempt
\* of the source compiler with a glCreateShader that is not the binary loader's.
BinaryAttempt(i) == Log[i].op = "glGetString"
SourceAttempt(i) == Log[i].op = "glCreateShader" /\ ~InBinaryLoader(i)

\* The handle that the binary attempt beginning at i returned.
BinaryHandle(i) ==
    IF /\ i + 4 <= Len(Log)
       /\ Log[i].res = 1
       /\ Log[i + 1].op = "glCreateShader" /\ Log[i + 1].res = 1
       /\ Log[i + 2].op = "g_file_load_contents" /\ Log[i + 2].res = 1
       /\ Log[i + 3].op = "glShaderBinary"
       /\ Log[i + 4].op = "glGetError" /\ Log[i + 4].res = 0
    THEN Log[i + 1].id ELSE 0

\* The handle that the source attempt beginning at j returned (0 as well when
\* the process crashed in it).
SourceHandle(j) ==
    IF /\ j + 3 <= Len(Log)
       /\ Log[j].res = 1
       /\ Log[j + 1].op = "g_file_load_contents" /\ Log[j + 1].res = 1
       /\ Log[j + 2].op = "glShaderSource"
       /\ Log[j + 3].op = "glCompileShader" /\ Log[j + 3].res = 1
    THEN Log[j].id ELSE 0

\* The first attempt, or the first glAttachShader, after index i (0: none).
AttemptsAfter(i) ==
    {k \in LogIndex : k > i /\ (BinaryAttempt(k) \/ SourceAttempt(k) \/ Log[k].op = "glAttachShader")}
NextAttempt(i) == IF AttemptsAfter(i) = {} THEN 0 ELSE Smallest(AttemptsAfter(i))

BinaryAttempts == {i \in LogIndex : BinaryAttempt(i)}

\* What the stage whose binary attempt begins at i got.
StageResult(i) ==
    IF BinaryHandle(i) # 0 THEN BinaryHandle(i)
    ELSE IF NextAttempt(i) # 0 /\ SourceAttempt(NextAttempt(i)) THEN SourceHandle(NextAttempt(i))
    ELSE 0

\* The stage that index k of the log belongs to (1: vertex, 2: fragment), given
\* the binary attempts B of the log; the basename of a stage.
StageIn(B, k) == Cardinality({i \in B : i <= k})
StageOf(k) == StageIn(BinaryAttempts, k)
StageBasename(n) == IF n = 1 THEN "vertex" ELSE SourceBasename(last.process_type)

\* (B, next and Reads are bound by quantifiers over one-element sets, so that
\* each is computed once per state.)
C12_SourceExactlyAfterFailedBinary ==
    InitCalled =>
        \A B \in {BinaryAttempts} :
        \A next \in {[i \in B |-> NextAttempt(i)]} :
        \A Reads \in {{k \in LogIndex : Log[k].op = "g_file_load_contents"}} :
        /\ Cardinality(B) <= 2
        /\ \A i \in B :
             /\ BinaryHandle(i) = 0 <=> (next[i] # 0 /\ SourceAttempt(next[i]))
             /\ \A j \in B : j > i => (next[i] # 0 /\ next[i] <= j)
        /\ \A j \in LogIndex :
             SourceAttempt(j) => \E i \in B : i < j /\ next[i] = j
        /\ \A k \in Reads :
             Log[k].file \in {StageBasename(StageIn(B, k)) \o ".glsh",
                              StageBasename(StageIn(B, k)) \o ".glsl"}
        /\ \A x, y \in Reads :
             (x < y /\ StageIn(B, x) = StageIn(B, y)) =>
                 /\ Log[x].file = StageBasename(StageIn(B, x)) \o ".glsh"
                 /\ Log[y].file = StageBasename(StageIn(B, y)) \o ".glsl"
        /\ (alive /\ B # {}) =>
             shader.vertex_shader = StageResult(Smallest(B))
        /\ (alive /\ Cardinality(B) = 2) =>
             shader.fragment_shader = StageResult(CHOOSE i \in B : i # Smallest(B))

\* C12's case: the driver advertises binary shaders, one stage got its binary
\* shader, for the other the driver refused the blob and the source compiler
\* was tried, and gl_init_shader returned 0.
C12_Witness ==
    /\ InitSucceeded
    /\ Called("glShaderBinary", 0)
    /\ \E i, j \in BinaryAttempts :
         /\ BinaryHandle(i) # 0
         /\ BinaryHandle(j) = 0 /\ SourceHandle(NextAttempt(j)) # 0

(***************************************************************************)
(* C13: when gl_load_shader returns 0 for a stage, every shader object     *)
(* that the binary loader or the source compiler created in that call was  *)
(* deleted before it returned; when it returns a handle, exactly one       *)
(* shader object created in that call is live, the returned one.           *)
(***************************************************************************)
\* The index of the binary attempt that begins stage n.
StageStart(n) == CHOOSE i \in BinaryAttempts : StageOf(i) = n

\* The gl_load_shader of stage n was called and returned.
StageReturned(n) ==
    /\ InitCalled
    /\ n <= Cardinality(BinaryAttempts)
    /\ alive \/ n < Cardinality(BinaryAttempts)

\* The glCreateShader calls of stage n that created a shader object.
StageCreations(n) ==
    {k \in LogIndex : Log[k].op = "glCreateShader" /\ Log[k].res = 1 /\ StageOf(k) = n}

\* The shader created at index k was deleted later in the same stage.
DeletedInStage(k) ==
    \E d \in LogIndex :
        /\ d > k /\ StageOf(d) = StageOf(k)
        /\ Log[d].op = "glDeleteShader" /\ Log[d].id = Log[k].id /\ Log[d].res = 1

C13_StageLeavesOnlyItsHandle ==
    InitCalled =>
        \A B \in {BinaryAttempts} :
        \A n \in 1..Cardinality(B) :
            (alive \/ n < Cardinality(B)) =>
                \A h \in {StageResult(CHOOSE i \in B : StageIn(B, i) = n)} :
                \A made \in {{k \in LogIndex : /\ Log[k].op = "glCreateShader" /\ Log[k].res = 1
                                                /\ StageIn(B, k) = n}} :
                \A kept \in {{k \in made :
                                 ~\E d \in LogIndex :
                                     /\ d > k /\ StageIn(B, d) = n
                                     /\ Log[d].op = "glDeleteShader" /\ Log[d].res = 1
                                     /\ Log[d].id = Log[k].id}} :
                /\ h = 0 => (kept = {} /\ \A k \in made : ~LiveShader(Log[k].id))
                /\ h # 0 =>
                     /\ Cardinality(kept) = 1
                     /\ {Log[k].id : k \in {c \in made : LiveShader(Log[c].id)}} = {h}

\* C13's case: the vertex stage returned a handle after its binary shader was
\* deleted, and the fragment stage returned 0 after it had created and deleted
\* a shader in the binary loader and one in the source compiler.
C13_Witness ==
    /\ InitReturned /\ last.ret = -EINVAL
    /\ shader.vertex_shader # 0 /\ shader.fragment_shader = 0
    /\ Cardinality(StageCreations(1)) = 2
    /\ Cardinality(StageCreations(2)) = 2

(***************************************************************************)
(* C14 (as claimed): gl_init_shader loads the vertex stage before it       *)
(* touches the fragment stage; when the vertex stage fails to load, it     *)
(* returns -EINVAL, has read no fragment shader file and created no        *)
(* fragment shader object, and hands no program to the caller.             *)
(***************************************************************************)
\* The file reads and shader creations of the fragment stage.
FragmentSteps ==
    {k \in LogIndex : /\ Log[k].op \in {"g_file_load_contents", "glCreateShader"}
                      /\ \/ Log[k].file = "GL_FRAGMENT_SHADER"
                         \/ \E b \in Basenames \ {VERTEX_SHADER_BASENAME} : \E e \in {".glsh", ".glsl"} :
                              Log[k].file = b \o e}
VertexSteps ==
    {k \in LogIndex : /\ Log[k].op \in {"g_file_load_contents", "glCreateShader"}
                      /\ Log[k].file \in {"GL_VERTEX_SHADER", "vertex.glsh", "vertex.glsl"}}

\* The vertex stage of the last gl_init_shader failed to load: it returned 0,
\* or the process crashed in it.
VertexStageFailed ==
    /\ InitCalled
    /\ VertexSteps # {}
    /\ \/ alive /\ shader.vertex_shader = 0
       \/ ~alive /\ FragmentSteps = {}

C14_VertexBeforeFragment ==
    /\ InitCalled => \A v \in VertexSteps : \A f \in FragmentSteps : v < f
    /\ VertexStageFailed =>
         /\ alive /\ last.ret = -EINVAL
         /\ FragmentSteps = {}
         /\ shader.program = 0

(***************************************************************************)
(* C15: on link failure gl_init_shader destroys the program object and     *)
(* returns -EINVAL, and does not destroy the two shaders that the call     *)
(* loaded: they stay live in the driver and their names stay in the        *)
(* structure.                                                              *)
(***************************************************************************)
LinkFailed == InitCalled /\ Called("glLinkProgram", 0)

C15_LinkFailureKeepsShaders ==
    LinkFailed =>
        /\ alive /\ last.ret = -EINVAL
        /\ Log[Len(Log)] = Ev("glDeleteProgram", "", CreatedProgram, 1)
        /\ ~LiveProgram(CreatedProgram)
        /\ shader.vertex_shader # 0 /\ shader.fragment_shader # 0
        /\ shader.vertex_shader = StageResult(StageStart(1))
        /\ shader.fragment_shader = StageResult(StageStart(2))
        /\ gl.sh[shader.vertex_shader] = "live"
        /\ gl.sh[shader.fragment_shader] = "live"
        /\ ~IsAttached(gl, shader.vertex_shader) /\ ~IsAttached(gl, shader.fragment_shader)

\* C15's case: both shaders were attached without error and the link failed.
C15_Witness ==
    /\ LinkFailed
    /\ ~Called("glAttachShader", 0)
    /\ Cardinality({i \in LogIndex : Log[i].op = "glAttachShader" /\ Log[i].res = 1}) = 2
    /\ gl.sh[shader.vertex_shader] = "live"

(***************************************************************************)
(* C16: once both stages are loaded, gl_init_shader always goes on to      *)
(* attach both, bind slot 0 to vPosition and link, whether or not an       *)
(* attach left a driver error: the error is read (and logged) and nothing  *)
(* else, and the return value follows from the link status alone.          *)
(***************************************************************************)
\* Both stages of the last gl_init_shader were loaded.
BothLoaded ==
    /\ InitReturned /\ CreatedProgram # 0
    /\ shader.vertex_shader # 0 /\ shader.fragment_shader # 0

Attaches == {i \in LogIndex : Log[i].op = "glAttachShader"}

C16_AttachErrorOnlyLogged ==
    BothLoaded =>
        /\ Cardinality(Attaches) = 2
        /\ LET a == Smallest(Attaches) IN
             /\ a + 5 <= Len(Log)
             /\ Log[a].op = "glAttachShader" /\ Log[a].id = shader.vertex_shader
             /\ Log[a + 1].op = "glGetError"
             /\ Log[a + 2].op = "glAttachShader" /\ Log[a + 2].id = shader.fragment_shader
             /\ Log[a + 3].op = "glGetError"
             /\ (Log[a].res = 0 => Log[a + 1].res = 1)
             /\ (Log[a + 2].res = 0 => Log[a + 3].res = 1)
             /\ Log[a + 4] = Ev("glBindAttribLocation", "vPosition", CreatedProgram, 0)
             /\ Log[a + 5].op = "glLinkProgram" /\ Log[a + 5].id = CreatedProgram
             /\ last.ret = IF Log[a + 5].res = 1 THEN 0 ELSE -EINVAL

\* C16's case: the driver raised an error at the first attach, and the bind and
\* the link were called all the same.
C16_Witness ==
    /\ BothLoaded
    /\ Log[Smallest(Attaches)].res = 0
    /\ Called("glBindAttribLocation", 0)
    /\ Called("glLinkProgram", 0)

(***************************************************************************)
(* C17 (as claimed): when the host keeps the ownership rule, then whenever *)
(* no successfully initialised program is outstanding, no program or       *)
(* shader object that shader.c created is left unreleased in the driver.   *)
(* (An object counts as released once the driver was told to delete it,    *)
(* even if the driver defers the deletion.)                                *)
(***************************************************************************)
UnreleasedShader(n) == gl.sh[n] = "live"
UnreleasedProgram(n) == gl.pr[n].st # "free" /\ ~gl.pr[n].del

C17_NothingLeftUnreleased ==
    (alive /\ ~Outstanding) =>
        \A n \in Names : ~UnreleasedShader(n) /\ ~UnreleasedProgram(n)

(***************************************************************************)
(* C18: when the host keeps the ownership rule, no driver object is        *)
(* released twice, and gl_delete_shader hands the driver no non-zero name  *)
(* of an object that is not live: its three names are different objects,   *)
(* live and not yet released; every deletion inside gl_init_shader is of   *)
(* an object the same call created and has not deleted since.              *)
(***************************************************************************)
IsDelete(e) == e.op \in {"glDeleteShader", "glDeleteProgram"}
Creates(c, d) ==
    /\ c.res = 1 /\ c.id = d.id
    /\ \/ c.op = "glCreateShader" /\ d.op = "glDeleteShader"
       \/ c.op = "glCreateProgram" /\ d.op = "glDeleteProgram"

C19_ErrorLeavesRenderState ==
    [][(last'.op = "gl_init_shader" /\ ~(alive' /\ last'.ret = 0)) =>
          /\ gl'.cur = gl.cur
          /\ gl'.clr = gl.clr
          /\ shader'.position_loc = shader.position_loc
          /\ shader'.texcoord_loc = shader.texcoord_loc]_vars

\* C19's case: gl_init_shader returned an error after a failed link, in a
\* context where the program of an earlier call is current (flagged for
\* deletion since), and the fields hold the locations of that earlier call.
C19_Witness ==
    /\ InitReturned /\ last.ret = -EINVAL
    /\ Called("glLinkProgram", 0)
    /\ gl.cur # 0 /\ gl.cur # shader.program /\ gl.pr[gl.cur].del
    /\ gl.clr = "opaque_black"
    /\ shader.position_loc = 0 /\ shader.texcoord_loc = 1

(***************************************************************************)
(* C20 (as claimed): when the source file was read, the source compiler    *)
(* hands the driver the whole contents, with a length equal to the number  *)
(* of bytes read, also when the contents hold a zero byte.                 *)
(***************************************************************************)
C20_SubmitsBytesRead ==
    InitCalled =>
        \A k \in LogIndex :
            Log[k].op = "glShaderSource" =>
                /\ k > 1
                /\ Log[k - 1].op = "g_file_load_contents" /\ Log[k - 1].res = 1
                /\ Log[k].res = Len(FileContents(Log[k - 1].file))

====
